---------------------------- MODULE Spec2Model ----------------------------
(***************************************************************************)
(* Model of query_csv_duckdb.py: the command-line wrapper that runs SQL    *)
(* against a CSV file through an in-memory engine connection, with the     *)
(* identifier sanitizer, the schema mapping and the textual query rewrite. *)
(*                                                                         *)
(* Texts are sequences of characters; a character is a one-character       *)
(* string, except "u00e9", which stands for one non-ASCII letter.          *)
(***************************************************************************)
EXTENDS Integers, Sequences, FiniteSets, TLC

VARIABLES
    args,        \* the parsed command line (argparse namespace)
    csv_file,    \* what the engine finds at --csv: "unreadable" or the column names
    pc,          \* position of the invocation
    conn,        \* number of engine connections currently open
    ret,         \* value (or pending exception) of the call in progress
    schema,      \* main's result of show_columns: "unset", "None" or the column names
    mapping,     \* main's mapping / pairs list
    select_items,\* the items of the list comprehension joined into the projection
    snippet,     \* the subquery text built from the mapping
    query_text,  \* the query template handed to run_query
    engine_log,  \* every SQL text handed to conn.execute, in order
    out,         \* what was printed, in order
    mode,        \* the branches of main entered, in order
    name,        \* sanitizer harness: the input text
    safe         \* sanitizer harness: the successive results

vars == <<args, csv_file, pc, conn, ret, schema, mapping, select_items, snippet,
          query_text, engine_log, out, mode, name, safe>>

mainVars == <<args, csv_file, pc, conn, ret, schema, mapping, select_items, snippet,
              query_text, engine_log, out, mode>>

-----------------------------------------------------------------------------
(* Bounds of the model *)

MaxNameLen == 4
MaxApply == 2
MaxCols == 2
MaxPieces == 3
ExtraCols == 2

-----------------------------------------------------------------------------
(* Characters *)

Digits == {"0","1","2","3","4","5","6","7","8","9"}

Lower == {"a","b","c","d","e","f","g","h","i","j","k","l","m",
          "n","o","p","q","r","s","t","u","v","w","x","y","z"}

Upper == {"A","B","C","D","E","F","G","H","I","J","K","L","M",
          "N","O","P","Q","R","S","T","U","V","W","X","Y","Z"}

Whitespace == {" "}

\* the sequences of at most n elements of S
SeqsUpTo(S, n) == UNION {[1..k -> S] : k \in 0..n}

\* the character class [0-9A-Za-z] of the two re.sub patterns
IsAlnum(c) == c \in Digits \cup Lower \cup Upper

UpperSeq == <<"A","B","C","D","E","F","G","H","I","J","K","L","M",
              "N","O","P","Q","R","S","T","U","V","W","X","Y","Z">>

LowerSeq == <<"a","b","c","d","e","f","g","h","i","j","k","l","m",
              "n","o","p","q","r","s","t","u","v","w","x","y","z">>

\* str.lower on one character
lower_char(c) ==
    IF c \in Upper
    THEN LowerSeq[CHOOSE i \in 1..26 : UpperSeq[i] = c]
    ELSE c

\* str.lower
lower(s) == [i \in 1..Len(s) |-> lower_char(s[i])]

\* str.strip(chars): drop the leading and the trailing characters in chars
RECURSIVE lstrip(_, _)
lstrip(s, chars) ==
    IF s # <<>> /\ Head(s) \in chars THEN lstrip(Tail(s), chars) ELSE s

RECURSIVE rstrip(_, _)
rstrip(s, chars) ==
    IF s # <<>> /\ s[Len(s)] \in chars
    THEN rstrip(SubSeq(s, 1, Len(s) - 1), chars)
    ELSE s

strip(s, chars) == rstrip(lstrip(s, chars), chars)

\* re.sub(r'[^0-9A-Za-z]+', '_', s): every maximal run of characters outside
\* the class becomes one underscore
RECURSIVE SkipNonAlnum(_)
SkipNonAlnum(s) ==
    IF s # <<>> /\ ~IsAlnum(Head(s)) THEN SkipNonAlnum(Tail(s)) ELSE s

RECURSIVE re_sub_nonalnum(_)
re_sub_nonalnum(s) ==
    IF s = <<>> THEN <<>>
    ELSE IF IsAlnum(Head(s)) THEN <<Head(s)>> \o re_sub_nonalnum(Tail(s))
    ELSE <<"_">> \o re_sub_nonalnum(SkipNonAlnum(Tail(s)))

\* re.sub(r'__+', '_', s): every run of two or more underscores becomes one
RECURSIVE re_sub_underscores(_)
re_sub_underscores(s) ==
    IF s = <<>> THEN <<>>
    ELSE IF Len(s) >= 2 /\ s[1] = "_" /\ s[2] = "_"
         THEN <<"_">> \o re_sub_underscores(lstrip(s, {"_"}))
    ELSE <<Head(s)>> \o re_sub_underscores(Tail(s))

\* re.match(r'^[0-9]', s)
re_match_digit(s) == s # <<>> /\ s[1] \in Digits

\* the sanitizer without the substitution of 'col' for an empty result
sanitize_identifier_keep_empty(n) ==
    LET s1 == strip(n, Whitespace)
        s2 == re_sub_nonalnum(s1)
        s3 == re_sub_underscores(s2)
        s4 == lower(strip(s3, {"_"}))
    IN  IF re_match_digit(s4) THEN <<"c","_">> \o s4 ELSE s4

\* sanitize_identifier of the --show-safe branch
sanitize_identifier(n) ==
    LET s1 == strip(n, Whitespace)
        s2 == re_sub_nonalnum(s1)
        s3 == re_sub_underscores(s2)
        s4 == lower(strip(s3, {"_"}))
        s5 == IF s4 = <<>> THEN <<"c","o","l">> ELSE s4
    IN  IF re_match_digit(s5) THEN <<"c","_">> \o s5 ELSE s5

\* the sanitizer with re.search(r'[0-9]', s) in place of re.match(r'^[0-9]', s)
sanitize_identifier_q_search(n) ==
    LET s1 == strip(n, Whitespace)
        s2 == re_sub_nonalnum(s1)
        s3 == re_sub_underscores(s2)
        s4 == lower(strip(s3, {"_"}))
        s5 == IF s4 = <<>> THEN <<"c","o","l">> ELSE s4
    IN  IF \E i \in 1..Len(s5) : s5[i] \in Digits THEN <<"c","_">> \o s5 ELSE s5

\* sanitize_identifier of the --query --sanitize branch
sanitize_identifier_q(n) ==
    LET s1 == strip(n, Whitespace)
        s2 == re_sub_nonalnum(s1)
        s3 == re_sub_underscores(s2)
        s4 == lower(strip(s3, {"_"}))
        s5 == IF s4 = <<>> THEN <<"c","o","l">> ELSE s4
    IN  IF re_match_digit(s5) THEN <<"c","_">> \o s5 ELSE s5

-----------------------------------------------------------------------------
(* Text operations of the query path *)

\* the marker literal of the rewrite, "read_csv_auto('{csv}')"
Marker == <<"r","e","a","d","_","c","s","v","_","a","u","t","o","(","'","{","c","s","v","}","'",")">>

SetMin(S) == CHOOSE i \in S : \A j \in S : i <= j

\* str.find(old): index of the first occurrence of old in s, 0 when there is none
str_find(s, old) ==
    LET at == {i \in 1..(Len(s) - Len(old) + 1) : SubSeq(s, i, i + Len(old) - 1) = old}
    IN  IF at = {} THEN 0 ELSE SetMin(at)

\* str.replace(old, new) with a non-empty old: every non-overlapping
\* occurrence, found left to right, is replaced; the replacement is not rescanned
RECURSIVE str_replace(_, _, _)
str_replace(s, old, new) ==
    LET i == str_find(s, old)
    IN  IF i = 0 THEN s
        ELSE SubSeq(s, 1, i - 1) \o new
             \o str_replace(SubSeq(s, i + Len(old), Len(s)), old, new)

\* csv_path.replace('\\', '\\\\')
escape_path(path) == str_replace(path, <<"\\">>, <<"\\", "\\">>)

\* ', '.join(items)
RECURSIVE join(_, _)
join(items, sep) ==
    IF items = <<>> THEN <<>>
    ELSE IF Len(items) = 1 THEN items[1]
    ELSE items[1] \o sep \o join(Tail(items), sep)

\* index of the first "{" or "}" of s at or after from, 0 when there is none
FirstBrace(s, from) ==
    LET at == {i \in from..Len(s) : s[i] \in {"{", "}"}}
    IN  IF at = {} THEN 0 ELSE SetMin(at)

FormatError == [ok |-> FALSE, text |-> <<>>]

FormatCons(prefix, r) ==
    IF r.ok THEN [ok |-> TRUE, text |-> prefix \o r.text] ELSE FormatError

\* query.format(csv=value) for templates without the characters ! : . [ ] :
\* literal text is copied, "{{" and "}}" are the escaped braces, "{csv}" is
\* the value, and every other brace raises (ValueError, KeyError or IndexError)
RECURSIVE str_format(_, _)
str_format(q, value) ==
    LET b == FirstBrace(q, 1)
        two == b < Len(q) /\ q[b + 1] = q[b]
        close == FirstBrace(q, b + 1)
    IN  IF b = 0 THEN [ok |-> TRUE, text |-> q]
        ELSE IF two
             THEN FormatCons(SubSeq(q, 1, b), str_format(SubSeq(q, b + 2, Len(q)), value))
        ELSE IF q[b] = "}" \/ close = 0 \/ q[close] = "{" THEN FormatError
        ELSE IF SubSeq(q, b + 1, close - 1) = <<"c","s","v">>
             THEN FormatCons(SubSeq(q, 1, b - 1) \o value,
                             str_format(SubSeq(q, close + 1, Len(q)), value))
        ELSE FormatError

-----------------------------------------------------------------------------
(* The invocation *)

\* the slice bound of mapping[:20]
SnippetLimit == 20

CountQuery ==
    <<"S","E","L","E","C","T"," ","C","O","U","N","T","(","*",")"," ","a","s"," ","r","o","w","_","c","o","u","n","t"," ","F","R","O","M"," ">>
    \o Marker

DefaultQuery ==
    <<"S","E","L","E","C","T"," ","*"," ","F","R","O","M"," ">> \o Marker
    \o <<" ","L","I","M","I","T"," ","1","0">>

\* the f-string of show_columns
ProbeSql(csv_path) ==
    <<"S","E","L","E","C","T"," ","*"," ","F","R","O","M"," ","r","e","a","d","_","c","s","v","_","a","u","t","o","(","'">>
    \o escape_path(csv_path) \o <<"'",")"," ","L","I","M","I","T"," ","0">>

NoQuery == [given |-> FALSE, text |-> <<>>]

\* truth value of args.query: None and the empty text are false
Truthy(q) == q.given /\ q.text # <<>>

\* the chain of ifs with the --count and --query tests in the other order
main_branch_query_first(a) ==
    IF a.show_columns THEN "show_columns"
    ELSE IF a.show_safe THEN "show_safe"
    ELSE IF Truthy(a.query) THEN "query"
    ELSE IF a.count THEN "count"
    ELSE "default"

\* the chain of ifs of main: the branch an argument namespace takes
main_branch(a) ==
    IF a.show_columns THEN "show_columns"
    ELSE IF a.show_safe THEN "show_safe"
    ELSE IF a.count THEN "count"
    ELSE IF Truthy(a.query) THEN "query"
    ELSE "default"

\* the test without its "or df.empty" half
OnlyNone(r) == r.kind = "None"

\* "df is None or df.empty" / "schema is None or schema.empty"
NoneOrEmpty(r) == r.kind = "None" \/ (r.kind = "frame" /\ r.columns = <<>>)

\* the loop skipping a column whose safe name is already in the mapping
RECURSIVE mapping_loop_dedup(_, _)
mapping_loop_dedup(cols, acc) ==
    IF cols = <<>> THEN acc
    ELSE IF \E i \in 1..Len(acc) : acc[i].safe = sanitize_identifier(Head(cols))
         THEN mapping_loop_dedup(Tail(cols), acc)
    ELSE mapping_loop_dedup(Tail(cols),
            Append(acc, [original |-> Head(cols), safe |-> sanitize_identifier(Head(cols))]))

\* the loop of --show-safe over schema['column'].tolist()
RECURSIVE mapping_loop(_, _)
mapping_loop(cols, acc) ==
    IF cols = <<>> THEN acc
    ELSE mapping_loop(Tail(cols),
            Append(acc, [original |-> Head(cols), safe |-> sanitize_identifier(Head(cols))]))

\* the loop of --sanitize over schema['column'].tolist()
RECURSIVE pairs_loop(_, _)
pairs_loop(cols, acc) ==
    IF cols = <<>> THEN acc
    ELSE pairs_loop(Tail(cols), Append(acc, <<Head(cols), sanitize_identifier_q(Head(cols))>>))

\* mapping[:20]
SliceTo(s, n) == SubSeq(s, 1, IF Len(s) < n THEN Len(s) ELSE n)

\* the list comprehension of the --show-safe example: "<original>" as <safe>
\* for the entries of mapping[:20]
show_safe_items(m) ==
    LET head == SliceTo(m, SnippetLimit)
    IN  [i \in 1..Len(head) |->
            <<"\"">> \o head[i].original \o <<"\""," ","a","s"," ">> \o head[i].safe]

\* the --show-safe snippet: (SELECT <items> FROM read_csv_auto('<escaped path>')) AS data
show_safe_snippet(items, csv_path) ==
    <<"(","S","E","L","E","C","T"," ">> \o join(items, <<",", " ">>)
    \o <<" ","F","R","O","M"," ","r","e","a","d","_","c","s","v","_","a","u","t","o","(","'">>
    \o escape_path(csv_path) \o <<"'",")",")"," ","A","S"," ","d","a","t","a">>

\* the comprehension over mapping[:20], as the --show-safe example has it
sanitize_items_sliced(pairs) ==
    LET head == SliceTo(pairs, SnippetLimit)
    IN  [i \in 1..Len(head) |->
            <<"\"">> \o head[i][1] \o <<"\""," ","A","S"," ">> \o head[i][2]]

\* the list comprehension of --sanitize: "<original>" AS <safe> for every pair
sanitize_items(pairs) ==
    [i \in 1..Len(pairs) |->
        <<"\"">> \o pairs[i][1] \o <<"\""," ","A","S"," ">> \o pairs[i][2]]

\* the --sanitize subquery: (SELECT <items> FROM read_csv_auto('{csv}'))
sanitize_subquery(items) ==
    <<"(","S","E","L","E","C","T"," ">> \o join(items, <<",", " ">>)
    \o <<" ","F","R","O","M"," ">> \o Marker \o <<")">>

\* str.replace(old, new, 1): the first occurrence only
rewrite_first(template, subquery) ==
    LET i == str_find(template, Marker)
    IN  IF i = 0 THEN template
        ELSE SubSeq(template, 1, i - 1) \o subquery
             \o SubSeq(template, i + Len(Marker), Len(template))

\* a rewrite that falls back to the bare subquery when the marker is absent
rewrite_or_subquery(template, subquery) ==
    IF str_find(template, Marker) = 0 THEN subquery
    ELSE str_replace(template, Marker, subquery)

\* query_text.replace("read_csv_auto('{csv}')", subquery)
rewrite(template, subquery) == str_replace(template, Marker, subquery)

Unset == [kind |-> "unset", columns |-> <<>>]

Value(k) == [kind |-> k, columns |-> <<>>]

\* a close placed after the body of the try instead of in a finally clause
conn_close_on_return(c, r) ==
    IF r.kind \in {"engine_error", "format_error", "None"} THEN c ELSE c - 1

\* finally: conn.close(), whatever the body of the try did
conn_close(c, r) == c - 1

\* the branches of main that call show_columns
Probes(a) ==
    \/ main_branch(a) \in {"show_columns", "show_safe"}
    \/ main_branch(a) = "query" /\ a.sanitize

\* main: the branch taken calls show_columns first
MainProbe ==
    /\ pc = "main"
    /\ Probes(args)
    /\ mode' = Append(mode, main_branch(args))
    /\ pc' = "call_show_columns"
    /\ UNCHANGED <<args, csv_file, conn, ret, schema, mapping, select_items, snippet,
                   query_text, engine_log, out, name, safe>>

\* show_columns: duckdb.connect
ShowColumnsConnect ==
    /\ pc = "call_show_columns"
    /\ conn' = conn + 1
    /\ pc' = "sc_try"
    /\ UNCHANGED <<args, csv_file, ret, schema, mapping, select_items, snippet,
                   query_text, engine_log, out, mode, name, safe>>

\* show_columns: the body of the try; a duckdb.Error is caught and None returned
ShowColumnsExecute ==
    /\ pc = "sc_try"
    /\ engine_log' = Append(engine_log, ProbeSql(args.csv))
    /\ ret' = IF csv_file.readable
              THEN [kind |-> "frame", columns |-> csv_file.columns]
              ELSE Value("None")
    /\ pc' = "sc_finally"
    /\ UNCHANGED <<args, csv_file, conn, schema, mapping, select_items, snippet,
                   query_text, out, mode, name, safe>>

\* show_columns: the finally clause, then the return to main
ShowColumnsClose ==
    /\ pc = "sc_finally"
    /\ conn' = conn_close(conn, ret)
    /\ schema' = ret
    /\ ret' = Value("none")
    /\ pc' = "probed"
    /\ UNCHANGED <<args, csv_file, mapping, select_items, snippet,
                   query_text, engine_log, out, mode, name, safe>>

\* main, --show-columns, after the probe
MainShowColumns ==
    /\ pc = "probed"
    /\ main_branch(args) = "show_columns"
    /\ IF NoneOrEmpty(schema)
       THEN /\ out' = Append(out, "no_columns")
            /\ pc' = "sys_exit_1"
       ELSE /\ out' = out \o <<"schema_header", "schema">>
            /\ pc' = "returned"
    /\ UNCHANGED <<args, csv_file, conn, ret, schema, mapping, select_items, snippet,
                   query_text, engine_log, mode, name, safe>>

\* main, --show-safe, after the probe
MainShowSafe ==
    /\ pc = "probed"
    /\ main_branch(args) = "show_safe"
    /\ IF NoneOrEmpty(schema)
       THEN /\ out' = Append(out, "no_columns")
            /\ pc' = "sys_exit_1"
            /\ UNCHANGED <<mapping, select_items, snippet>>
       ELSE /\ mapping' = mapping_loop(schema.columns, <<>>)
            /\ select_items' = show_safe_items(mapping')
            /\ snippet' = show_safe_snippet(select_items', args.csv)
            /\ out' = out \o <<"mapping_header", "mapping", "example_header",
                               "snippet", "usage">>
            /\ pc' = "returned"
    /\ UNCHANGED <<args, csv_file, conn, ret, schema, query_text, engine_log, mode, name, safe>>

\* main, --count
MainCount ==
    /\ pc = "main"
    /\ main_branch(args) = "count"
    /\ query_text' = CountQuery
    /\ mode' = Append(mode, "count")
    /\ pc' = "call_run_query"
    /\ UNCHANGED <<args, csv_file, conn, ret, schema, mapping, select_items, snippet,
                   engine_log, out, name, safe>>

\* main, --query without --sanitize
MainQuery ==
    /\ pc = "main"
    /\ main_branch(args) = "query"
    /\ ~args.sanitize
    /\ query_text' = args.query.text
    /\ mode' = Append(mode, "query")
    /\ pc' = "call_run_query"
    /\ UNCHANGED <<args, csv_file, conn, ret, schema, mapping, select_items, snippet,
                   engine_log, out, name, safe>>

\* main, --query --sanitize, after the probe
MainSanitize ==
    /\ pc = "probed"
    /\ main_branch(args) = "query"
    /\ IF NoneOrEmpty(schema)
       THEN /\ out' = Append(out, "no_columns")
            /\ pc' = "sys_exit_1"
            /\ UNCHANGED <<mapping, select_items, snippet, query_text>>
       ELSE /\ mapping' = pairs_loop(schema.columns, <<>>)
            /\ select_items' = sanitize_items(mapping')
            /\ snippet' = sanitize_subquery(select_items')
            /\ query_text' = rewrite(args.query.text, snippet')
            /\ pc' = "call_run_query"
            /\ out' = out
    /\ UNCHANGED <<args, csv_file, conn, ret, schema, engine_log, mode, name, safe>>

\* main, no mode flag and no query
MainDefault ==
    /\ pc = "main"
    /\ main_branch(args) = "default"
    /\ query_text' = DefaultQuery
    /\ mode' = Append(mode, "default")
    /\ pc' = "call_run_query"
    /\ UNCHANGED <<args, csv_file, conn, ret, schema, mapping, select_items, snippet,
                   engine_log, out, name, safe>>

\* run_query: duckdb.connect
RunQueryConnect ==
    /\ pc = "call_run_query"
    /\ conn' = conn + 1
    /\ pc' = "rq_try"
    /\ UNCHANGED <<args, csv_file, ret, schema, mapping, select_items, snippet,
                   query_text, engine_log, out, mode, name, safe>>

\* what conn.execute(sql).df() of run_query can do
EngineOutcomes == {"rows", "empty", "engine_error"}

\* run_query: the body of the try; format or the engine may raise
RunQueryExecute ==
    /\ pc = "rq_try"
    /\ LET sql == str_format(query_text, escape_path(args.csv))
       IN  IF sql.ok
           THEN /\ engine_log' = Append(engine_log, sql.text)
                /\ \E r \in EngineOutcomes : ret' = Value(r)
           ELSE /\ engine_log' = engine_log
                /\ ret' = Value("format_error")
    /\ pc' = "rq_finally"
    /\ UNCHANGED <<args, csv_file, conn, schema, mapping, select_items, snippet,
                   query_text, out, mode, name, safe>>

\* the exit of run_query once the finally clause has run
after_run_query(r) ==
    IF r.kind \in {"engine_error", "format_error"} THEN "traceback" ELSE "ran"

\* run_query: the finally clause, then the return or the propagating exception
RunQueryClose ==
    /\ pc = "rq_finally"
    /\ conn' = conn_close(conn, ret)
    /\ pc' = after_run_query(ret)
    /\ UNCHANGED <<args, csv_file, ret, schema, mapping, select_items, snippet,
                   query_text, engine_log, out, mode, name, safe>>

\* main: the printing of the result of run_query
MainPrint ==
    /\ pc = "ran"
    /\ out' = Append(out, IF main_branch(args) = "query" /\ ret.kind = "empty"
                          THEN "no_rows" ELSE "table")
    /\ pc' = "returned"
    /\ UNCHANGED <<args, csv_file, conn, ret, schema, mapping, select_items, snippet,
                   query_text, engine_log, mode, name, safe>>

\* the exit status of the process at its final positions
ExitStatus == IF pc = "returned" THEN 0 ELSE 1

Final == pc \in {"returned", "sys_exit_1", "traceback"}

-----------------------------------------------------------------------------
(* Inputs *)

Flags == [show_columns : BOOLEAN, show_safe : BOOLEAN, count : BOOLEAN,
          sanitize : BOOLEAN]

Args(f, q, p) ==
    [csv |-> p, query |-> q, count |-> f.count, show_safe |-> f.show_safe,
     sanitize |-> f.sanitize, show_columns |-> f.show_columns]

Given(t) == [given |-> TRUE, text |-> t]

Readable(cols) == [readable |-> TRUE, columns |-> cols]

Unreadable == [readable |-> FALSE, columns |-> <<>>]

\* --csv values: a plain name, a Windows path, a path with a brace
Paths == {<<"f">>, <<"d","\\","f">>, <<"{","\\","\\">>}

\* column names: with a blank, colliding with it, digit-leading,
\* punctuation only, with braces
ColNames == {<<"a"," ","b">>, <<"a","_","b">>, <<"1">>, <<"%">>, <<"a","{","b","}">>}

MainStart ==
    /\ pc = "main"
    /\ conn = 0
    /\ ret = Value("none")
    /\ schema = Unset
    /\ mapping = <<>>
    /\ select_items = <<>>
    /\ snippet = <<>>
    /\ query_text = <<>>
    /\ engine_log = <<>>
    /\ out = <<>>
    /\ mode = <<>>
    /\ name = <<>>
    /\ safe = <<>>

\* --query values of the whole-program specification
MainQueries ==
    {NoQuery, Given(<<>>), Given(Marker), Given(<<"x">>), Given(<<"{">>),
     Given(Marker \o <<" ">> \o Marker)}

MainFiles ==
    {Unreadable, Readable(<<>>), Readable(<< <<"a"," ","b">> >>),
     Readable(<< <<"1">>, <<"a","{","b","}">> >>)}

Init ==
    /\ \E f \in Flags, q \in MainQueries, p \in {<<"f">>, <<"d","\\","f">>} :
            args = Args(f, q, p)
    /\ csv_file \in MainFiles
    /\ MainStart

Next ==
    \/ MainProbe
    \/ ShowColumnsConnect
    \/ ShowColumnsExecute
    \/ ShowColumnsClose
    \/ MainShowColumns
    \/ MainShowSafe
    \/ MainCount
    \/ MainQuery
    \/ MainSanitize
    \/ MainDefault
    \/ RunQueryConnect
    \/ RunQueryExecute
    \/ RunQueryClose
    \/ MainPrint

Spec == Init /\ [][Next]_vars

-----------------------------------------------------------------------------
(* Properties of the whole invocation, under Spec *)

InCall == pc \in {"sc_try", "sc_finally", "rq_try", "rq_finally"}

\* C7: at most one engine connection is open at any time, and one is open
\* only inside the try/finally of show_columns or run_query: at every other
\* position, so after every return, caught error and propagating exception,
\* and when the invocation has ended, no connection is open.
C7_ConnectionScoped ==
    /\ conn \in {0, 1}
    /\ ~InCall => conn = 0
    /\ pc \in {"sc_try", "rq_try"} => conn = 1

\* a format error of run_query has propagated and the connection is closed
C7_Witness ==
    /\ pc = "traceback"
    /\ ret.kind = "format_error"
    /\ conn = 0
    /\ Len(engine_log) = 1

ProbeFails == ~csv_file.readable \/ csv_file.columns = <<>>

\* C8: in a mode that probes the schema, when the probe raises an engine
\* error or yields no columns, nothing propagates: the invocation ends by
\* printing the diagnostic alone and exiting with status 1; no mapping is
\* built or printed and nothing but the probe reaches the engine.
C8_FailedProbeExits ==
    (Probes(args) /\ ProbeFails) =>
        /\ pc \in {"main", "call_show_columns", "sc_try", "sc_finally", "probed",
                   "sys_exit_1"}
        /\ Final => (out = <<"no_columns">> /\ ExitStatus # 0)
        /\ ~Final => out = <<>>
        /\ mapping = <<>> /\ query_text = <<>>
        /\ Len(engine_log) <= 1

\* --query --sanitize on an unreadable file has ended with the diagnostic
C8_Witness ==
    /\ main_branch(args) = "query"
    /\ args.sanitize
    /\ ~csv_file.readable
    /\ pc = "sys_exit_1"
    /\ out = <<"no_columns">>

\* the mode the priority list selects, when QueryGiven says whether a user
\* query counts as given
PriorityMode(QueryGiven) ==
    CASE args.show_columns -> "show_columns"
      [] ~args.show_columns /\ args.show_safe -> "show_safe"
      [] ~args.show_columns /\ ~args.show_safe /\ args.count -> "count"
      [] ~args.show_columns /\ ~args.show_safe /\ ~args.count /\ QueryGiven -> "query"
      [] OTHER -> "default"

\* what the invocation did, read off its trace, agrees with running mode m alone
RunsOnly(m) ==
    /\ mode = <<m>>
    /\ schema.kind # "unset" =>
            (m \in {"show_columns", "show_safe"} \/ (m = "query" /\ args.sanitize))
    /\ mapping # <<>> => (m = "show_safe" \/ (m = "query" /\ args.sanitize))
    /\ pc \in {"call_run_query", "rq_try", "rq_finally", "ran", "traceback", "returned"} =>
            CASE m = "count" -> query_text = CountQuery
              [] m = "default" -> query_text = DefaultQuery
              [] m = "query" /\ ~args.sanitize -> query_text = args.query.text
              [] m = "query" /\ args.sanitize -> schema.kind = "frame"
              [] OTHER -> query_text = <<>> /\ Len(engine_log) = 1
    /\ (pc = "ran" \/ (pc = "returned" /\ m \in {"count", "query", "default"})) =>
            Len(engine_log) = (IF m = "query" /\ args.sanitize THEN 2 ELSE 1)

\* C10 as stated: the mode is chosen by the priority --show-columns,
\* --show-safe, --count, --query, default, where --query counts whenever
\* the option is given.
C10_Original == pc # "main" => RunsOnly(PriorityMode(args.query.given))

\* C10, amended: the same priority, where --query counts only when its text
\* is not empty; an empty --query is treated as absent. Exactly one mode
\* runs; the user query is never run under --show-columns, --show-safe or
\* --count; --sanitize without a non-empty --query causes no probe and no
\* rewrite.
C10_ModePriority == pc # "main" => RunsOnly(PriorityMode(Truthy(args.query)))

\* --sanitize alone has run the default query to its end without a probe
C10_Witness ==
    /\ args.sanitize /\ ~args.query.given
    /\ ~args.show_columns /\ ~args.show_safe /\ ~args.count
    /\ pc = "returned"
    /\ mode = <<"default">>
    /\ schema.kind = "unset"

-----------------------------------------------------------------------------
(* The --query mode alone: invocations with a non-empty --query and none   *)
(* of --show-columns, --show-safe, --count, over every template of up to   *)
(* MaxPieces pieces.                                                       *)

CsvField == <<"{","c","s","v","}">>

Pieces == {Marker, CsvField, <<"x">>, <<"{">>, <<"}">>}

RECURSIVE Flatten(_)
Flatten(ps) == IF ps = <<>> THEN <<>> ELSE Head(ps) \o Flatten(Tail(ps))

Templates == {Flatten(ps) : ps \in SeqsUpTo(Pieces, MaxPieces) \ {<<>>}}

QueryFiles ==
    {Unreadable, Readable(<< <<"a"," ","b">> >>),
     Readable(<< <<"1">>, <<"a","{","b","}">> >>)}

InitQuery ==
    /\ \E s \in BOOLEAN, q \in Templates, p \in Paths :
            args = Args([show_columns |-> FALSE, show_safe |-> FALSE, count |-> FALSE,
                         sanitize |-> s], Given(q), p)
    /\ csv_file \in QueryFiles
    /\ MainStart

NextQuery ==
    \/ MainProbe
    \/ ShowColumnsConnect
    \/ ShowColumnsExecute
    \/ ShowColumnsClose
    \/ MainQuery
    \/ MainSanitize
    \/ RunQueryConnect
    \/ RunQueryExecute
    \/ RunQueryClose
    \/ MainPrint

SpecQuery == InitQuery /\ [][NextQuery]_vars

\* the positions at which the text of the marker occurs in t
Occ(t) ==
    {i \in 1..(Len(t) - Len(Marker) + 1) : SubSeq(t, i, i + Len(Marker) - 1) = Marker}

\* r is t with the occurrences of the marker at the positions P replaced by
\* sub and every character outside them kept, in order
ReplacedAt(t, r, sub, P) ==
    LET d == Len(sub) - Len(Marker)
        shift(i) == d * Cardinality({p \in P : p < i})
        outside(i) == \A p \in P : i < p \/ i >= p + Len(Marker)
    IN  /\ Len(r) = Len(t) + d * Cardinality(P)
        /\ \A i \in 1..Len(t) : outside(i) => r[i + shift(i)] = t[i]
        /\ \A p \in P : SubSeq(r, p + shift(p), p + shift(p) + Len(sub) - 1) = sub

\* the rewrite of --sanitize has been done
Rewritten ==
    /\ mode = <<"query">>
    /\ args.sanitize
    /\ pc \in {"call_run_query", "rq_try", "rq_finally", "ran", "traceback", "returned"}

\* C3 as stated: the first occurrence of the marker is replaced by the
\* subquery and every other character, any later occurrence included, is kept.
C3_Original ==
    Rewritten =>
        LET at == Occ(args.query.text)
        IN  ReplacedAt(args.query.text, query_text, snippet,
                       IF at = {} THEN {} ELSE {SetMin(at)})

\* C3, amended: every occurrence of the marker in the template is replaced
\* by the derived subquery, and every character outside the occurrences is
\* kept, in order.
C3_EveryOccurrence ==
    Rewritten => ReplacedAt(args.query.text, query_text, snippet, Occ(args.query.text))

\* a template with two markers and text between them has been rewritten
C3_Witness ==
    /\ Rewritten
    /\ args.query.text = Marker \o <<"x">> \o Marker
    /\ Len(query_text) = 1 + 2 * Len(snippet)

\* C4: when the marker does not occur in the template, the rewrite of
\* --sanitize leaves the template as it is, whatever the mapping, and the
\* invocation goes on to run_query with it instead of reporting an error.
C4_NoMarkerIdentity ==
    (mode = <<"query">> /\ args.sanitize /\ Occ(args.query.text) = {}
     /\ schema.kind = "frame" /\ schema.columns # <<>> /\ pc # "probed") =>
        /\ query_text = args.query.text
        /\ pc \in {"call_run_query", "rq_try", "rq_finally", "ran", "traceback", "returned"}
        /\ out \in {<<>>, <<"table">>, <<"no_rows">>}

\* a template without the marker went through --sanitize and was executed
C4_Witness ==
    /\ Rewritten
    /\ args.query.text = <<"x">> \o CsvField
    /\ mapping # <<>>
    /\ pc = "ran"
    /\ engine_log[2] = <<"x">> \o escape_path(args.csv)

\* C9 as stated: what run_query hands to the engine is the (rewritten)
\* query text with each {csv} replaced by the path with its backslashes
\* doubled and every other character unchanged, for every query text, path
\* and list of column names.
C9_SqlIsSubstitution ==
    (mode = <<"query">> /\ pc \in {"rq_finally", "ran", "traceback", "returned"}) =>
        /\ ret.kind # "format_error"
        /\ engine_log[Len(engine_log)]
              = str_replace(query_text, CsvField, escape_path(args.csv))

-----------------------------------------------------------------------------
(* The mapping modes alone: --show-safe, and --query --sanitize, over      *)
(* every list of up to MaxCols column names and lists around SnippetLimit. *)

ColSeq == << <<"a"," ","b">>, <<"a","_","b">>, <<"1">>, <<"%">>, <<"a","{","b","}">> >>

LongList(n) == [i \in 1..n |-> ColSeq[((i - 1) % Len(ColSeq)) + 1]]

ColLists ==
    SeqsUpTo(ColNames, MaxCols)
    \cup {LongList(n) : n \in (SnippetLimit - 1)..(SnippetLimit + ExtraCols)}

InitMap ==
    /\ \E f \in {[show_columns |-> FALSE, show_safe |-> TRUE, count |-> FALSE,
                  sanitize |-> FALSE],
                 [show_columns |-> FALSE, show_safe |-> FALSE, count |-> FALSE,
                  sanitize |-> TRUE]},
          p \in {<<"f">>, <<"d","\\","f">>} :
            args = Args(f, IF f.sanitize THEN Given(Marker) ELSE NoQuery, p)
    /\ \E cols \in ColLists : csv_file = Readable(cols)
    /\ MainStart

NextMap ==
    \/ MainProbe
    \/ ShowColumnsConnect
    \/ ShowColumnsExecute
    \/ ShowColumnsClose
    \/ MainShowSafe
    \/ MainSanitize

SpecMap == InitMap /\ [][NextMap]_vars

\* the mapping (or pair list) of the mode has been built
MappingBuilt ==
    /\ csv_file.columns # <<>>
    /\ \/ mode = <<"show_safe">> /\ pc = "returned"
       \/ mode = <<"query">> /\ pc = "call_run_query"

\* C6: the mapping of --show-safe and the pair list of --sanitize have the
\* length of the probed column list and their i-th entry is the i-th name
\* with its sanitized form: nothing is dropped, reordered or merged.
C6_MappingOrder ==
    MappingBuilt =>
        /\ Len(mapping) = Len(csv_file.columns)
        /\ \A i \in 1..Len(csv_file.columns) :
              IF mode = <<"show_safe">>
              THEN mapping[i] = [original |-> csv_file.columns[i],
                                 safe |-> sanitize_identifier(csv_file.columns[i])]
              ELSE mapping[i] = <<csv_file.columns[i],
                                  sanitize_identifier_q(csv_file.columns[i])>>

\* two different names with the same sanitized form are both in the mapping
C6_Witness ==
    /\ MappingBuilt
    /\ mode = <<"show_safe">>
    /\ Len(mapping) = 2
    /\ mapping[1].original # mapping[2].original
    /\ mapping[1].safe = mapping[2].safe

\* the item of the i-th mapping entry: the quoted original, the keyword, the alias
EntryItem(i) ==
    IF mode = <<"show_safe">>
    THEN <<"\"">> \o mapping[i].original \o <<"\""," ","a","s"," ">> \o mapping[i].safe
    ELSE <<"\"">> \o mapping[i][1] \o <<"\""," ","A","S"," ">> \o mapping[i][2]

\* the projection list of the subquery built is made of the items of the
\* first n mapping entries, in order, and of nothing else
ProjectionHas(n) ==
    LET its == [i \in 1..n |-> EntryItem(i)]
        list == join(its, <<",", " ">>)
        open == <<"(","S","E","L","E","C","T"," ">>
        from == <<" ","F","R","O","M"," ","r","e","a","d","_","c","s","v","_","a","u","t","o","(","'">>
    IN  /\ select_items = its
        /\ Len(snippet) >= Len(open) + Len(list) + Len(from)
        /\ SubSeq(snippet, 1, Len(open) + Len(list) + Len(from)) = open \o list \o from

\* C5 as stated: for a mapping of any length, both subqueries have one item
\* per mapping entry, in mapping order.
C5_Original == MappingBuilt => ProjectionHas(Len(mapping))

\* C5, amended: the subquery substituted by --sanitize has one item per
\* mapping entry, in mapping order; the example subquery printed by
\* --show-safe has one item for each of the first 20 mapping entries, in
\* mapping order, and none for the entries after them.
C5_ProjectionItems ==
    MappingBuilt =>
        IF mode = <<"show_safe">> /\ Len(mapping) > SnippetLimit
        THEN ProjectionHas(SnippetLimit)
        ELSE ProjectionHas(Len(mapping))

\* --show-safe has printed its example for a mapping of more than 20 entries
C5_Witness ==
    /\ MappingBuilt
    /\ mode = <<"show_safe">>
    /\ Len(mapping) = SnippetLimit + 1
    /\ Len(select_items) = SnippetLimit

-----------------------------------------------------------------------------
(* The sanitizer alone: every text of up to MaxNameLen characters of       *)
(* NameAlphabet is sanitized, and each result is sanitized again.          *)

NameAlphabet == {"a", "A", "1", "_", " ", "%", "u00e9"}

InitSan ==
    /\ name \in SeqsUpTo(NameAlphabet, MaxNameLen)
    /\ safe = <<>>
    /\ pc = "sanitizer"
    /\ args = Args([show_columns |-> FALSE, show_safe |-> FALSE, count |-> FALSE,
                    sanitize |-> FALSE], NoQuery, <<>>)
    /\ csv_file = Unreadable
    /\ conn = 0
    /\ ret = Value("none")
    /\ schema = Unset
    /\ mapping = <<>>
    /\ select_items = <<>>
    /\ snippet = <<>>
    /\ query_text = <<>>
    /\ engine_log = <<>>
    /\ out = <<>>
    /\ mode = <<>>

SanitizerInput == IF safe = <<>> THEN name ELSE safe[Len(safe)]

\* a call of the closure of the --show-safe branch
SanitizeShowSafe ==
    /\ pc = "sanitizer"
    /\ Len(safe) < MaxApply
    /\ safe' = Append(safe, sanitize_identifier(SanitizerInput))
    /\ UNCHANGED <<mainVars, name>>

\* a call of the closure of the --sanitize branch
SanitizeQuery ==
    /\ pc = "sanitizer"
    /\ Len(safe) < MaxApply
    /\ safe' = Append(safe, sanitize_identifier_q(SanitizerInput))
    /\ UNCHANGED <<mainVars, name>>

NextSan ==
    \/ SanitizeShowSafe
    \/ SanitizeQuery

SpecSan == InitSan /\ [][NextSan]_vars

\* a bare SQL identifier as the sanitizer promises it
ValidIdentifier(s) ==
    /\ s # <<>>
    /\ \A i \in 1..Len(s) : s[i] \in Lower \cup Digits \cup {"_"}
    /\ s[1] \notin Digits

\* C1: whatever the input text (empty, blank, punctuation only, digit
\* leading, non-ASCII), each sanitizer returns a non-empty text of ASCII
\* lower-case letters, digits and underscores that does not start with a digit.
C1_ValidIdentifier ==
    /\ \A i \in 1..Len(safe) : ValidIdentifier(safe[i])
    /\ ValidIdentifier(sanitize_identifier(name))
    /\ ValidIdentifier(sanitize_identifier_q(name))

\* a non-ASCII, digit-leading, mixed-case name has been sanitized
C1_Witness ==
    /\ name = <<"u00e9", "1", "%", "A">>
    /\ safe = << <<"c", "_", "1", "_", "a">> >>

\* C2: sanitizing a sanitized name returns it unchanged.
C2_Idempotent ==
    /\ \A i \in 2..Len(safe) : safe[i] = safe[1]
    /\ sanitize_identifier(sanitize_identifier(name)) = sanitize_identifier(name)
    /\ sanitize_identifier_q(sanitize_identifier_q(name)) = sanitize_identifier_q(name)

\* a result carrying the digit prefix has been sanitized again
C2_Witness ==
    /\ name = <<" ", "1", "a">>
    /\ safe = << <<"c", "_", "1", "a">>, <<"c", "_", "1", "a">> >>

=============================================================================
